---- MODULE Spec2Model ----
(***************************************************************************)
(* Model of the grammers client library:                                   *)
(*   - Client::next_updates and UpdateIter (client/updates.rs)             *)
(*   - the Dialogs paginated listing (iterators/dialogs.rs)                *)
(*   - Flag::from_str of the TL parser (tl/flag.rs)                        *)
(* Each part has its own next-state relation and specification; the        *)
(* variables of the other part stay at their initial values.               *)
(***************************************************************************)
EXTENDS Integers, Sequences, FiniteSets, TLC

VARIABLES
    \* ---- Client / next_updates -------------------------------------------
    userId,      \* Client::user_id(): Option<i32>
    upc,         \* position of the caller: "idle" | "running" | "returned" | "failed" | "panicked"
    iter,        \* the UpdateIter handed back by next_updates
    entitySet,   \* the EntitySet handed back by next_updates
    yielded,     \* history: the events UpdateIter::next has produced so far
    lastNext,    \* the value of the most recent UpdateIter::next call
    envelope,    \* history: the envelope the current result was built from
    lastLen,     \* history: number of envelopes of the most recent step() (-1: it failed)
    trips,       \* history: number of step() round-trips of the current call (capped)
    \* ---- Dialogs ----------------------------------------------------------
    request,     \* buffer.request: the GetDialogs request (the cursor)
    batch,       \* buffer.batch: Vec<types::Dialog>
    total,       \* buffer.total: Option<usize>
    done,        \* buffer.done
    entities,    \* HashMap<i32, types::Entity>
    messages,    \* HashMap<(i32, i32), tl::enums::Message>
    fillResult,  \* the Result of the most recent fill_buffer call
    last,        \* history: the call that produced this state, what the server answered
                 \* and (reset) whether the call turned done from true to false
    fills,       \* history: number of fill_buffer calls made
    \* ---- a caller of Dialogs that follows the consumption protocol ---------
    server,      \* the dialog list the server holds (used by the stable server only)
    page,        \* history: the descriptors of the latest page, in server order
    popped,      \* history: the Dialogs popped since the latest page arrived
    origin,      \* history: for each buffered Dialog, the number of the page that brought it
    poppedFrom,  \* history: for each Dialog popped so far, the number of its page
    sent,        \* history: the request that was sent for the latest page
    tick,        \* history: parity of the number of requests sent
    \* ---- Flag::from_str ---------------------------------------------------
    flagInput,   \* the &str handed to from_str
    flagResult   \* the Result it returned ("pending" before the call)

uvars == <<userId, upc, iter, entitySet, yielded, lastNext, envelope, lastLen, trips>>

dstate == <<request, batch, total, done, entities, messages>>

dvars == <<request, batch, total, done, entities, messages, fillResult, last, fills>>

pvars == <<server, page, popped, origin, poppedFrom, sent, tick>>

fvars == <<flagInput, flagResult>>

vars == <<uvars, dvars, pvars, fvars>>

\* ---------------------------------------------------------------- bounds
MaxId == 2            \* user / chat ids are 1..MaxId
MaxEvents == 2        \* events listed by one multi-event envelope
MaxEnvelopes == 2     \* envelopes delivered by one round-trip
MaxTrips == 2         \* cap of the round-trip counter
MaxCount == 3         \* largest count a response declares
MaxFills == 2         \* fill_buffer calls made on one Dialogs instance
MaxServer == 3        \* dialogs the stable server holds
MaxFlagLen == 4       \* characters of a string handed to Flag::from_str
UsizeBits == 4        \* width of usize in the parse of a flag index (scaled down)

Ids == 1..MaxId

\* Option<T>
NoneVal == [some |-> FALSE]
Some(x) == [some |-> TRUE, v |-> x]

SeqsUpTo(S, n) == UNION {[1..k -> S] : k \in 0..n}

RECURSIVE Reverse(_)
Reverse(s) == IF s = <<>> THEN <<>> ELSE Append(Reverse(Tail(s)), Head(s))

\* ------------------------------------------------------------ wire values
PeerUser(i) == [kind |-> "User", id |-> i]
PeerChat(i) == [kind |-> "Chat", id |-> i]
PeerChannel(i) == [kind |-> "Channel", id |-> i]

\* tl::enums::Update values that arrive ready-made
PlainUpdates == {[type |-> "Other", tag |-> t] : t \in {"a", "b"}}

\* tl::enums::Updates, the envelope returned by one step()
Envelopes ==
    {[shape |-> "UpdateShort", update |-> u] : u \in PlainUpdates}
    \cup {[shape |-> s, updates |-> us, users |-> usr, chats |-> ch] :
            s \in {"Combined", "Updates"}, us \in SeqsUpTo(PlainUpdates, MaxEvents),
            usr \in {<<>>, <<1>>}, ch \in {<<>>, <<2>>}}
    \cup {[shape |-> "UpdateShortMessage", out |-> o, user_id |-> c, id |-> 1] :
            o \in BOOLEAN, c \in Ids}
    \cup {[shape |-> "UpdateShortChatMessage", out |-> o, from_id |-> f, chat_id |-> c, id |-> 1] :
            o \in BOOLEAN, f \in Ids, c \in Ids}
    \cup {[shape |-> "TooLong"], [shape |-> "UpdateShortSentMessage"]}

\* one envelope of every wire shape, for the round-trips that deliver several
SampleEnvelopes ==
    {[shape |-> "UpdateShort", update |-> [type |-> "Other", tag |-> "a"]],
     [shape |-> "Combined", updates |-> <<[type |-> "Other", tag |-> "a"]>>,
      users |-> <<1>>, chats |-> <<>>],
     [shape |-> "Updates", updates |-> <<>>, users |-> <<>>, chats |-> <<>>],
     [shape |-> "UpdateShortMessage", out |-> FALSE, user_id |-> 1, id |-> 1],
     [shape |-> "UpdateShortChatMessage", out |-> TRUE, from_id |-> 1, chat_id |-> 2, id |-> 1],
     [shape |-> "TooLong"]}

\* Result<Vec<tl::enums::Updates>, ReadError> of Client::step
StepResults ==
    {[ok |-> FALSE]}
    \cup {[ok |-> TRUE, updates |-> es] : es \in SeqsUpTo(Envelopes, 1)}
    \cup {[ok |-> TRUE, updates |-> es] :
            es \in {q \in SeqsUpTo(SampleEnvelopes, MaxEnvelopes) : Len(q) >= 2}}

\* ------------------------------------------------------------- UpdateIter
UpdateIterSingle(update) == [kind |-> "Single", update |-> Some(update)]

UpdateIterMultipleForward(updates) == [kind |-> "Multiple", updates |-> updates]

UpdateIterMultiple(updates) == [kind |-> "Multiple", updates |-> Reverse(updates)]

\* Iterator::next: the yielded Option and the iterator left behind
UpdateIterNext(it) ==
    IF it.kind = "Single"
    THEN [item |-> it.update, rest |-> [kind |-> "Single", update |-> NoneVal]]
    ELSE IF it.updates = <<>>
         THEN [item |-> NoneVal, rest |-> it]
         ELSE [item |-> Some(it.updates[Len(it.updates)]),
               rest |-> [kind |-> "Multiple",
                         updates |-> SubSeq(it.updates, 1, Len(it.updates) - 1)]]

\* the events a caller gets by calling next until it answers None
RECURSIVE Drain(_)
Drain(it) ==
    LET n == UpdateIterNext(it)
    IN  IF n.item.some THEN <<n.item.v>> \o Drain(n.rest) ELSE <<>>

Exhausted(it) == ~UpdateIterNext(it).item.some

EntitySetEmpty == [kind |-> "empty"]
EntitySetNewOwned(users, chats) == [kind |-> "owned", users |-> users, chats |-> chats]

\* the message record fabricated for the compact envelopes
NewMessage(out, id, from, peer) ==
    [type |-> "NewMessage",
     message |-> [out |-> out, id |-> id, from_id |-> Some(from), peer_id |-> peer,
                  post |-> FALSE, media |-> NoneVal, reply_markup |-> NoneVal,
                  views |-> NoneVal, forwards |-> NoneVal, edit_date |-> NoneVal,
                  grouped_id |-> NoneVal]]

Returned(it, es) == [outcome |-> "ok", iter |-> it, entities |-> es]
Panicked == [outcome |-> "panic"]

\* the match of next_updates on the single envelope of a round-trip
ShortMessageSwapped(update, uid) ==
    LET from == IF update.out THEN Some(update.user_id) ELSE uid
        peer == IF update.out THEN uid ELSE Some(update.user_id)
    IN  IF from.some /\ peer.some
        THEN Returned(UpdateIterSingle(NewMessage(update.out, update.id,
                                                  PeerUser(from.v), PeerUser(peer.v))),
                      EntitySetEmpty)
        ELSE Panicked

ShortMessageLenient(update, uid) ==
    LET self == IF uid.some THEN uid.v ELSE 0
        from == IF update.out THEN self ELSE update.user_id
        peer == IF update.out THEN update.user_id ELSE self
    IN  Returned(UpdateIterSingle(NewMessage(update.out, update.id,
                                             PeerUser(from), PeerUser(peer))),
                 EntitySetEmpty)

ShortMessage(update, uid) ==
    LET from == IF update.out THEN uid ELSE Some(update.user_id)
        peer == IF update.out THEN Some(update.user_id) ELSE uid
    IN  IF from.some /\ peer.some
        THEN Returned(UpdateIterSingle(NewMessage(update.out, update.id,
                                                  PeerUser(from.v), PeerUser(peer.v))),
                      EntitySetEmpty)
        ELSE Panicked

ShortChatMessage(update, uid) ==
    Returned(UpdateIterSingle(NewMessage(update.out, update.id,
                                         PeerUser(update.from_id), PeerChat(update.chat_id))),
             EntitySetEmpty)

Classify(env, uid) ==
    CASE env.shape = "UpdateShort" -> Returned(UpdateIterSingle(env.update), EntitySetEmpty)
      [] env.shape \in {"Combined", "Updates"} ->
            Returned(UpdateIterMultiple(env.updates), EntitySetNewOwned(env.users, env.chats))
      [] env.shape = "UpdateShortMessage" -> ShortMessage(env, uid)
      [] env.shape = "UpdateShortChatMessage" -> ShortChatMessage(env, uid)
      [] OTHER -> Panicked

\* one pass of the loop body of next_updates on the result of step()
LoopBodyNoRetry(r, uid) ==
    IF ~r.ok THEN [outcome |-> "err"]
    ELSE IF Len(r.updates) = 0 THEN Returned(UpdateIterMultiple(<<>>), EntitySetEmpty)
    ELSE IF Len(r.updates) # 1 THEN Panicked
    ELSE Classify(r.updates[Len(r.updates)], uid)

LoopBodyTruncating(r, uid) ==
    IF ~r.ok THEN [outcome |-> "err"]
    ELSE IF Len(r.updates) = 0 THEN [outcome |-> "continue"]
    ELSE Classify(r.updates[Len(r.updates)], uid)

LoopBody(r, uid) ==
    IF ~r.ok THEN [outcome |-> "err"]
    ELSE IF Len(r.updates) = 0 THEN [outcome |-> "continue"]
    ELSE IF Len(r.updates) # 1 THEN Panicked
    ELSE Classify(r.updates[Len(r.updates)], uid)

\* ======================================================================
\* Dialogs (iterators/dialogs.rs)
\* ======================================================================
\* limit of one GetDialogs request; the source asks for 100 dialogs per page,
\* the model scales the page down so that full and short pages can be listed
MAX_DIALOGS_PER_REQUEST == 2


\* usize values: carry * 2^BITS + low, BITS the width of usize on the target
UsizeOfLen(n) == [carry |-> 0, low |-> n]
\* `x as usize` of an i32: a negative x sign-extends and wraps to 2^BITS + x
AsUsize(x) == [carry |-> IF x < 0 THEN 1 ELSE 0, low |-> x]
UsizeLt(a, b) == a.carry < b.carry \/ (a.carry = b.carry /\ a.low < b.low)

\* ---- wire values of messages.getDialogs
WireUser(i) == [variant |-> "User", id |-> i]
WireUserEmpty(i) == [variant |-> "Empty", id |-> i]
WireChat(v, i) == [variant |-> v, id |-> i]
WireMessage(v, to, i, d) == [variant |-> v, to_id |-> to, id |-> i, date |-> d]
WireMessageEmpty(i) == [variant |-> "Empty", id |-> i]
WireDialog(p, top) == [variant |-> "Dialog", peer |-> p, top_message |-> top]
WireFolder == [variant |-> "Folder"]

\* types::Entity and its input-peer form
Entity(k, i) == [kind |-> k, id |-> i]
InputPeerEmpty == [kind |-> "Empty", id |-> 0]
ToInputPeer(e) == [kind |-> e.kind, id |-> e.id]

\* ---- HashMap
EmptyMap == << >>
MapInsert(m, k, v) == [x \in DOMAIN m \cup {k} |-> IF x = k THEN v ELSE m[x]]
MapRemove(m, k) == [x \in DOMAIN m \ {k} |-> m[x]]

peer_id(peer) ==
    CASE peer.kind = "User" -> peer.id
      [] peer.kind = "Chat" -> peer.id
      [] peer.kind = "Channel" -> peer.id

message_id(message) ==
    CASE message.variant = "Message" -> Some(<<peer_id(message.to_id), message.id>>)
      [] message.variant = "Service" -> Some(<<peer_id(message.to_id), message.id>>)
      [] message.variant = "Empty" -> NoneVal

\* ---- RpcIterBuffer
BufferPush(b, item) == Append(b, item)
BufferPop(b) ==
    IF b = <<>> THEN [item |-> NoneVal, rest |-> b]
    ELSE [item |-> Some(b[Len(b)]), rest |-> SubSeq(b, 1, Len(b) - 1)]
BufferShouldFill(b, d) == b = <<>> /\ ~d

\* Dialogs::iter
DialogsIter ==
    [request |-> [offset_date |-> 0, offset_id |-> 0, offset_peer |-> InputPeerEmpty,
                  limit |-> MAX_DIALOGS_PER_REQUEST],
     batch |-> <<>>, total |-> NoneVal, done |-> FALSE,
     entities |-> EmptyMap, messages |-> EmptyMap]

RECURSIVE update_user_entities(_, _)
update_user_entities(self, users) ==
    IF users = <<>> THEN self
    ELSE LET user == Head(users)
             next == IF user.variant = "User"
                     THEN [self EXCEPT !.entities = MapInsert(@, user.id, Entity("User", user.id))]
                     ELSE self
         IN  update_user_entities(next, Tail(users))

RECURSIVE update_chat_entities(_, _)
update_chat_entities(self, chats) ==
    IF chats = <<>> THEN self
    ELSE LET chat == Head(chats)
             next == CASE chat.variant = "Chat" ->
                            [self EXCEPT !.entities = MapInsert(@, chat.id, Entity("Chat", chat.id))]
                       [] chat.variant = "Channel" ->
                            [self EXCEPT !.entities = MapInsert(@, chat.id, Entity("Channel", chat.id))]
                       [] OTHER -> self
         IN  update_chat_entities(next, Tail(chats))

RECURSIVE update_messages(_, _)
update_messages(self, msgs) ==
    IF msgs = <<>> THEN self
    ELSE LET message == Head(msgs)
             id == message_id(message)
             next == IF id.some
                     THEN [self EXCEPT !.messages = MapInsert(@, id.v, message)]
                     ELSE self
         IN  update_messages(next, Tail(msgs))

\* the closure of update_dialogs applied to one descriptor
PushDialogWrongKey(self, dialog) ==
    IF dialog.variant = "Dialog"
    THEN LET pid == dialog.top_message
             key == <<pid, dialog.top_message>>
         IN  IF pid \in DOMAIN self.entities
             THEN [self EXCEPT
                     !.entities = MapRemove(@, pid),
                     !.messages = MapRemove(@, key),
                     !.batch = BufferPush(@, [dialog |-> dialog,
                                              entity |-> self.entities[pid],
                                              last_message |->
                                                 IF key \in DOMAIN self.messages
                                                 THEN Some(self.messages[key])
                                                 ELSE NoneVal])]
             ELSE self
    ELSE self

PushDialogKeepingMessage(self, dialog) ==
    IF dialog.variant = "Dialog"
    THEN LET pid == peer_id(dialog.peer)
             key == <<pid, dialog.top_message>>
         IN  IF pid \in DOMAIN self.entities
             THEN [self EXCEPT
                     !.entities = MapRemove(@, pid),
                     !.batch = BufferPush(@, [dialog |-> dialog,
                                              entity |-> self.entities[pid],
                                              last_message |->
                                                 IF key \in DOMAIN self.messages
                                                 THEN Some(self.messages[key])
                                                 ELSE NoneVal])]
             ELSE self
    ELSE self

PushDialog(self, dialog) ==
    IF dialog.variant = "Dialog"
    THEN LET pid == peer_id(dialog.peer)
             key == <<pid, dialog.top_message>>
         IN  IF pid \in DOMAIN self.entities
             THEN [self EXCEPT
                     !.entities = MapRemove(@, pid),
                     !.messages = MapRemove(@, key),
                     !.batch = BufferPush(@, [dialog |-> dialog,
                                              entity |-> self.entities[pid],
                                              last_message |->
                                                 IF key \in DOMAIN self.messages
                                                 THEN Some(self.messages[key])
                                                 ELSE NoneVal])]
             ELSE self
    ELSE self

\* dialogs.into_iter().for_each(..), without the rev()
RECURSIVE update_dialogsForward(_, _)
update_dialogsForward(self, dialogs) ==
    IF dialogs = <<>> THEN self
    ELSE update_dialogsForward(PushDialog(self, Head(dialogs)), Tail(dialogs))

\* dialogs.into_iter().rev().for_each(..)
RECURSIVE update_dialogs(_, _)
update_dialogs(self, dialogs) ==
    IF dialogs = <<>> THEN self
    ELSE update_dialogs(PushDialog(self, dialogs[Len(dialogs)]),
                        SubSeq(dialogs, 1, Len(dialogs) - 1))

\* the same loop over self.buffer.batch.iter().rev()
RECURSIVE ScanOffsetsFromEnd(_, _)
ScanOffsetsFromEnd(self, k) ==
    IF k > Len(self.batch) THEN self
    ELSE LET lm == self.batch[Len(self.batch) + 1 - k].last_message
         IN  IF lm.some
             THEN (IF lm.v.variant = "Empty"
                   THEN [self EXCEPT !.request.offset_id = lm.v.id]
                   ELSE [self EXCEPT !.request.offset_id = lm.v.id,
                                     !.request.offset_date = lm.v.date])
             ELSE ScanOffsetsFromEnd(self, k + 1)

\* the for loop of update_request_offsets from index k of the batch on
RECURSIVE ScanOffsets(_, _)
ScanOffsets(self, k) ==
    IF k > Len(self.batch) THEN self
    ELSE LET lm == self.batch[k].last_message
         IN  IF lm.some
             THEN (IF lm.v.variant = "Empty"
                   THEN [self EXCEPT !.request.offset_id = lm.v.id]
                   ELSE [self EXCEPT !.request.offset_id = lm.v.id,
                                     !.request.offset_date = lm.v.date])
             ELSE ScanOffsets(self, k + 1)

update_request_offsets(self) ==
    LET withPeer == IF Len(self.batch) >= 1
                    THEN [self EXCEPT !.request.offset_peer = ToInputPeer(self.batch[1].entity)]
                    ELSE self
    IN  ScanOffsets(withPeer, 1)

Merge(self, resp) ==
    update_dialogs(
        update_messages(
            update_chat_entities(
                update_user_entities(self, resp.users), resp.chats), resp.messages),
        resp.dialogs)

\* the three arms of the match in fill_buffer
OnDialogsRecomputing(self, resp) ==
    update_request_offsets(
        Merge([self EXCEPT !.total = Some(UsizeOfLen(Len(resp.dialogs))), !.done = TRUE], resp))

OnDialogsDoneByLength(self, resp) ==
    Merge([self EXCEPT !.total = Some(UsizeOfLen(Len(resp.dialogs))),
                       !.done = UsizeLt(UsizeOfLen(Len(resp.dialogs)),
                                        AsUsize(self.request.limit))],
          resp)

OnDialogs(self, resp) ==
    Merge([self EXCEPT !.total = Some(UsizeOfLen(Len(resp.dialogs))), !.done = TRUE], resp)

OnDialogsSliceDoneAtLimit(self, resp) ==
    update_request_offsets(
        Merge([self EXCEPT !.total = Some(AsUsize(resp.count)),
                           !.done = ~UsizeLt(AsUsize(self.request.limit),
                                             UsizeOfLen(Len(resp.dialogs)))],
              resp))

OnDialogsSlice(self, resp) ==
    update_request_offsets(
        Merge([self EXCEPT !.total = Some(AsUsize(resp.count)),
                           !.done = UsizeLt(UsizeOfLen(Len(resp.dialogs)),
                                            AsUsize(self.request.limit))],
              resp))

OnDialogsNotModifiedClearing(self, resp) ==
    [self EXCEPT !.total = Some(AsUsize(resp.count)), !.done = TRUE, !.batch = <<>>]

OnDialogsNotModified(self, resp) ==
    [self EXCEPT !.total = Some(AsUsize(resp.count)), !.done = TRUE]

\* fill_buffer on the outcome of client.invoke: the listing afterwards and the
\* value returned
FillBufferDoneOnError(self, resp) ==
    CASE resp.shape = "Err" ->
            [self |-> [self EXCEPT !.done = TRUE], result |-> [ok |-> FALSE, err |-> resp.err]]
      [] resp.shape = "Dialogs" -> [self |-> OnDialogs(self, resp), result |-> [ok |-> TRUE]]
      [] resp.shape = "DialogsSlice" ->
            [self |-> OnDialogsSlice(self, resp), result |-> [ok |-> TRUE]]
      [] resp.shape = "DialogsNotModified" ->
            [self |-> OnDialogsNotModified(self, resp), result |-> [ok |-> TRUE]]

FillBufferGuarded(self, resp) ==
    IF ~BufferShouldFill(self.batch, self.done) THEN [self |-> self, result |-> [ok |-> TRUE]]
    ELSE CASE resp.shape = "Err" -> [self |-> self, result |-> [ok |-> FALSE, err |-> resp.err]]
           [] resp.shape = "Dialogs" -> [self |-> OnDialogs(self, resp), result |-> [ok |-> TRUE]]
           [] resp.shape = "DialogsSlice" ->
                 [self |-> OnDialogsSlice(self, resp), result |-> [ok |-> TRUE]]
           [] resp.shape = "DialogsNotModified" ->
                 [self |-> OnDialogsNotModified(self, resp), result |-> [ok |-> TRUE]]

FillBuffer(self, resp) ==
    CASE resp.shape = "Err" -> [self |-> self, result |-> [ok |-> FALSE, err |-> resp.err]]
      [] resp.shape = "Dialogs" -> [self |-> OnDialogs(self, resp), result |-> [ok |-> TRUE]]
      [] resp.shape = "DialogsSlice" ->
            [self |-> OnDialogsSlice(self, resp), result |-> [ok |-> TRUE]]
      [] resp.shape = "DialogsNotModified" ->
            [self |-> OnDialogsNotModified(self, resp), result |-> [ok |-> TRUE]]

\* ---- what the server may answer
Counts == {-1, MaxCount}
InvocationErrors == {"Rpc", "Io"}
DialogPool ==
    {WireDialog(PeerUser(1), 1), WireDialog(PeerUser(2), 2), WireDialog(PeerChannel(2), 1),
     WireFolder}
UserLists == {<<>>, <<WireUserEmpty(2), WireUser(1)>>}
ChatLists == {<<>>, <<WireChat("Forbidden", 1), WireChat("Channel", 2)>>}
MessageLists ==
    {<<>>,
     <<WireMessageEmpty(2), WireMessage("Message", PeerUser(1), 1, 10),
       WireMessage("Service", PeerChannel(2), 2, 20)>>}

\* a page: its descriptors, and all or none of the users and chats
PageContents ==
    {p \in [dialogs : SeqsUpTo(DialogPool, MAX_DIALOGS_PER_REQUEST), messages : MessageLists,
             chats : ChatLists, users : UserLists] :
        (p.users = <<>>) = (p.chats = <<>>)}

\* the pages that come with a negative count
BareContents == {p \in PageContents : p.users = <<>> /\ p.messages = <<>>}

InvokeResults ==
    {[shape |-> "Err", err |-> e] : e \in InvocationErrors}
    \cup {[shape |-> "DialogsNotModified", count |-> c] : c \in Counts}
    \cup {[shape |-> "Dialogs", dialogs |-> p.dialogs, messages |-> p.messages,
           chats |-> p.chats, users |-> p.users] : p \in PageContents}
    \cup {[shape |-> "DialogsSlice", count |-> MaxCount, dialogs |-> p.dialogs,
           messages |-> p.messages, chats |-> p.chats, users |-> p.users] :
            p \in PageContents}
    \cup {[shape |-> "DialogsSlice", count |-> -1, dialogs |-> p.dialogs,
           messages |-> p.messages, chats |-> p.chats, users |-> p.users] :
            p \in BareContents}

\* the entities a page delivers (after the conversions of update_*_entities)
PageEntities(resp) ==
    {Entity("User", resp.users[i].id) : i \in {j \in DOMAIN resp.users : resp.users[j].variant = "User"}}
    \cup {Entity(resp.chats[i].variant, resp.chats[i].id) :
            i \in {j \in DOMAIN resp.chats : resp.chats[j].variant \in {"Chat", "Channel"}}}

Self ==
    [request |-> request, batch |-> batch, total |-> total, done |-> done,
     entities |-> entities, messages |-> messages]

\* ======================================================================
\* Flag::from_str (tl/flag.rs)
\* ======================================================================
\* a &str is the sequence of its characters
Digits == {"0", "1", "9"}
FlagChars == {"f", ".", "+", "-"} \cup Digits
FlagInputs == SeqsUpTo(FlagChars, MaxFlagLen)

DigitValue(c) == CASE c = "0" -> 0 [] c = "1" -> 1 [] c = "9" -> 9

USIZE_MAX == 2^UsizeBits - 1

\* str::find / str::rfind of a character: the position (from 0) of its first /
\* last occurrence
FindLast(s, c) ==
    IF \E i \in DOMAIN s : s[i] = c
    THEN Some((CHOOSE i \in DOMAIN s : s[i] = c /\ \A j \in DOMAIN s : s[j] = c => j <= i) - 1)
    ELSE NoneVal

Find(s, c) ==
    IF \E i \in DOMAIN s : s[i] = c
    THEN Some((CHOOSE i \in DOMAIN s : s[i] = c /\ \A j \in DOMAIN s : s[j] = c => i <= j) - 1)
    ELSE NoneVal

\* the digit loop of usize::from_str: checked_mul by 10, checked_add of the digit
RECURSIVE ParseDigits(_, _)
ParseDigits(digits, acc) ==
    IF digits = <<>> THEN [ok |-> TRUE, v |-> acc]
    ELSE IF Head(digits) \notin Digits THEN [ok |-> FALSE, kind |-> "InvalidDigit"]
    ELSE IF acc * 10 > USIZE_MAX THEN [ok |-> FALSE, kind |-> "PosOverflow"]
    ELSE IF acc * 10 + DigitValue(Head(digits)) > USIZE_MAX
         THEN [ok |-> FALSE, kind |-> "PosOverflow"]
    ELSE ParseDigits(Tail(digits), acc * 10 + DigitValue(Head(digits)))

\* str::parse::<usize>(): an optional '+', then the digits
ParseUsize(src) ==
    IF src = <<>> THEN [ok |-> FALSE, kind |-> "Empty"]
    ELSE LET digits == IF Head(src) = "+" THEN Tail(src) ELSE src
         IN  IF digits = <<>> THEN [ok |-> FALSE, kind |-> "Empty"]
             ELSE ParseDigits(digits, 0)

InvalidFlag == [ok |-> FALSE, err |-> "InvalidFlag"]

FlagFromStr(ty) ==
    LET dot_pos == Find(ty, ".") IN
    IF dot_pos.some
    THEN LET index == ParseUsize(SubSeq(ty, dot_pos.v + 2, Len(ty))) IN
         IF index.ok
         THEN [ok |-> TRUE, name |-> SubSeq(ty, 1, dot_pos.v), index |-> index.v]
         ELSE InvalidFlag
    ELSE InvalidFlag

\* ------------------------------------------------------------------- Init
NoIter == [kind |-> "Single", update |-> NoneVal]
NoEnvelope == [shape |-> "none"]

InitUpdates ==
    /\ userId \in {NoneVal} \cup {Some(i) : i \in Ids}
    /\ upc = "idle"
    /\ iter = NoIter
    /\ entitySet = EntitySetEmpty
    /\ yielded = <<>>
    /\ lastNext = NoneVal
    /\ envelope = NoEnvelope
    /\ lastLen = 0
    /\ trips = 0

InitDialogs ==
    /\ request = DialogsIter.request
    /\ batch = DialogsIter.batch
    /\ total = DialogsIter.total
    /\ done = DialogsIter.done
    /\ entities = DialogsIter.entities
    /\ messages = DialogsIter.messages
    /\ fillResult = [ok |-> TRUE]
    /\ last = [op |-> "iter"]
    /\ fills = 0

InitProtocol ==
    /\ server = <<>>
    /\ page = <<>>
    /\ popped = <<>>
    /\ origin = <<>>
    /\ poppedFrom = <<>>
    /\ sent = DialogsIter.request
    /\ tick = 0

FlagPending == [kind |-> "pending"]

InitFlag ==
    /\ flagInput = <<>>
    /\ flagResult = FlagPending

Init == InitUpdates /\ InitDialogs /\ InitProtocol /\ InitFlag

\* ---------------------------------------------------------------- actions
\* the caller enters next_updates (again, after a result or a transport error)
CallNextUpdates ==
    /\ upc \in {"idle", "returned", "failed"}
    /\ upc' = "running"
    /\ iter' = NoIter
    /\ entitySet' = EntitySetEmpty
    /\ yielded' = <<>>
    /\ lastNext' = NoneVal
    /\ envelope' = NoEnvelope
    /\ lastLen' = 0
    /\ trips' = 0
    /\ UNCHANGED <<userId, dvars, pvars, fvars>>

\* one iteration of the loop: await step(), then the length test and the match
NextUpdatesLoop ==
    /\ upc = "running"
    /\ \E r \in StepResults :
        LET res == LoopBody(r, userId) IN
        /\ lastLen' = IF r.ok THEN Len(r.updates) ELSE -1
        /\ trips' = IF trips < MaxTrips THEN trips + 1 ELSE trips
        /\ upc' = CASE res.outcome = "err" -> "failed"
                    [] res.outcome = "continue" -> "running"
                    [] res.outcome = "panic" -> "panicked"
                    [] OTHER -> "returned"
        /\ iter' = IF res.outcome = "ok" THEN res.iter ELSE iter
        /\ entitySet' = IF res.outcome = "ok" THEN res.entities ELSE entitySet
        /\ envelope' = IF r.ok /\ Len(r.updates) = 1 THEN r.updates[1] ELSE envelope
    /\ UNCHANGED <<userId, yielded, lastNext, dvars, pvars, fvars>>

\* the caller pulls one item out of the returned UpdateIter
IterNext ==
    /\ upc = "returned"
    /\ LET n == UpdateIterNext(iter) IN
        /\ lastNext' = n.item
        /\ iter' = n.rest
        /\ yielded' = IF n.item.some THEN Append(yielded, n.item.v) ELSE yielded
    /\ UNCHANGED <<userId, upc, entitySet, envelope, lastLen, trips, dvars, pvars, fvars>>

NextUpdates == CallNextUpdates \/ NextUpdatesLoop \/ IterNext

SpecUpdates == Init /\ [][NextUpdates]_vars

\* ---- Dialogs
\* fill_buffer handling the outcome resp of its invoke
FillStep(resp) ==
    \E r \in {FillBuffer(Self, resp)} :
        /\ request' = r.self.request
        /\ batch' = r.self.batch
        /\ total' = r.self.total
        /\ done' = r.self.done
        /\ entities' = r.self.entities
        /\ messages' = r.self.messages
        /\ fillResult' = r.result
        /\ last' = CASE resp.shape = "Err" -> [op |-> "fill", shape |-> "Err", err |-> resp.err]
                     [] resp.shape = "DialogsNotModified" ->
                            [op |-> "fill", shape |-> resp.shape, count |-> resp.count]
                     [] resp.shape = "Dialogs" ->
                            [op |-> "fill", shape |-> resp.shape,
                             n |-> Len(resp.dialogs), ents |-> PageEntities(resp),
                             added |-> Len(r.self.batch) - Len(batch)]
                     [] resp.shape = "DialogsSlice" ->
                            [op |-> "fill", shape |-> resp.shape, count |-> resp.count,
                             n |-> Len(resp.dialogs), ents |-> PageEntities(resp),
                             added |-> Len(r.self.batch) - Len(batch),
                             reset |-> done /\ ~r.self.done]

\* a call of fill_buffer: one invoke of the current request and its handling
FillBufferCall ==
    /\ fills < MaxFills
    /\ \E resp \in InvokeResults : FillStep(resp)
    /\ fills' = fills + 1
    /\ UNCHANGED <<uvars, pvars, fvars>>

\* a call of pop_buffer
PopBuffer ==
    /\ LET p == BufferPop(batch) IN
        /\ batch' = p.rest
        /\ last' = [op |-> "pop", item |-> p.item]
    /\ UNCHANGED <<request, total, done, entities, messages, fillResult, fills>>
    /\ UNCHANGED <<uvars, pvars, fvars>>

NextDialogs == FillBufferCall \/ PopBuffer

\* the listing does not read the client's identity: one client is enough
InitListing == Init /\ userId = NoneVal

SpecDialogs == InitListing /\ [][NextDialogs]_vars

\* ---- a caller that follows the consumption protocol
\* what the server answers to such a caller: any page, counts not negative
ProtocolAnswers ==
    {resp \in InvokeResults :
        resp.shape \in {"DialogsNotModified", "DialogsSlice"} => resp.count = MaxCount}

\* fill_buffer, called only while should_fill_buffer() answers true
ProtocolFill ==
    /\ BufferShouldFill(batch, done)
    /\ fills < MaxFills
    /\ \E resp \in ProtocolAnswers :
        /\ FillStep(resp)
        /\ IF resp.shape \in {"Dialogs", "DialogsSlice"}
           THEN /\ page' = resp.dialogs
                /\ popped' = <<>>
                /\ sent' = request
                /\ origin' = origin \o [k \in 1..(Len(batch') - Len(batch)) |-> fills + 1]
           ELSE UNCHANGED <<page, popped, sent, origin>>
    /\ fills' = fills + 1
    /\ tick' = 1 - tick
    /\ UNCHANGED <<server, poppedFrom, uvars, fvars>>

\* pop_buffer, called whenever fill_buffer is not due
ProtocolPop ==
    /\ ~BufferShouldFill(batch, done)
    /\ LET p == BufferPop(batch) IN
        /\ batch' = p.rest
        /\ last' = [op |-> "pop", item |-> p.item]
        /\ popped' = IF p.item.some THEN Append(popped, p.item.v) ELSE popped
        /\ poppedFrom' = IF p.item.some THEN Append(poppedFrom, origin[Len(origin)])
                          ELSE poppedFrom
        /\ origin' = IF p.item.some THEN SubSeq(origin, 1, Len(origin) - 1) ELSE origin
    /\ UNCHANGED <<request, total, done, entities, messages, fillResult, fills>>
    /\ UNCHANGED <<server, page, sent, tick, uvars, fvars>>

NextProtocol == ProtocolFill \/ ProtocolPop

SpecProtocol == InitListing /\ [][NextProtocol]_vars

\* ---- the same caller against a server that holds one list in a stable order
\* what the server holds at position i of its list, by kind of entry:
\*   "full"   a dialog whose user and last message are delivered with it
\*   "nomsg"  a dialog whose last message is addressed to the own user (id 0)
\*   "hidden" a dialog whose user is delivered as User::Empty
\*   "folder" a folder
EntryKinds == {"full", "nomsg", "hidden", "folder"}
ServerLists == SeqsUpTo(EntryKinds, MaxServer)
DateOf(i) == 100 - i

Descriptor(kind, i) == IF kind = "folder" THEN WireFolder ELSE WireDialog(PeerUser(i), i)
UsersOf(kind, i) ==
    CASE kind = "folder" -> <<>>
      [] kind = "hidden" -> <<WireUserEmpty(i)>>
      [] OTHER -> <<WireUser(i)>>
MessagesOf(kind, i) ==
    CASE kind = "folder" -> <<>>
      [] kind = "nomsg" -> <<WireMessage("Message", PeerUser(0), i, DateOf(i))>>
      [] OTHER -> <<WireMessage("Message", PeerUser(i), i, DateOf(i))>>

\* the cursor of req names the dialog at position i
Names(req, i) ==
    /\ server[i] # "folder"
    /\ \/ req.offset_peer = ToInputPeer(Entity("User", i))
       \/ req.offset_id = i /\ req.offset_date = DateOf(i)

\* the last position the cursor names (0: none, the list is served from its start)
Position(req) ==
    LET named == {i \in DOMAIN server : Names(req, i)}
    IN  IF named = {} THEN 0 ELSE CHOOSE i \in named : \A j \in named : j <= i

\* the users / messages delivered with the entries at positions from..to
RECURSIVE UsersFrom(_, _)
UsersFrom(from, to) ==
    IF from > to THEN <<>> ELSE UsersOf(server[from], from) \o UsersFrom(from + 1, to)

RECURSIVE MessagesFrom(_, _)
MessagesFrom(from, to) ==
    IF from > to THEN <<>> ELSE MessagesOf(server[from], from) \o MessagesFrom(from + 1, to)

\* the answer to req: the slice of at most limit descriptors after the cursor
ServerAnswer(req) ==
    LET from == Position(req) + 1
        upto == IF from + req.limit - 1 < Len(server) THEN from + req.limit - 1
                ELSE Len(server)
    IN  [shape |-> "DialogsSlice", count |-> Len(server),
         dialogs |-> [k \in 1..(upto - from + 1) |-> Descriptor(server[from + k - 1], from + k - 1)],
         messages |-> MessagesFrom(from, upto),
         chats |-> <<>>,
         users |-> UsersFrom(from, upto)]

InitServer ==
    /\ InitUpdates /\ userId = NoneVal
    /\ InitDialogs
    /\ server \in ServerLists
    /\ page = <<>> /\ popped = <<>> /\ origin = <<>> /\ poppedFrom = <<>>
    /\ sent = DialogsIter.request
    /\ tick = 0
    /\ InitFlag

\* fill_buffer when it is due, the invoke answered by the server
DriverFetch ==
    /\ BufferShouldFill(batch, done)
    /\ \E resp \in {ServerAnswer(request)} : FillStep(resp)
    /\ tick' = 1 - tick
    /\ UNCHANGED <<fills, server, page, popped, origin, poppedFrom, sent, uvars, fvars>>

\* fill_buffer when it is due, the invoke failing
DriverFetchFails ==
    /\ BufferShouldFill(batch, done)
    /\ \E resp \in {[shape |-> "Err", err |-> e] : e \in InvocationErrors} : FillStep(resp)
    /\ tick' = 1 - tick
    /\ UNCHANGED <<fills, server, page, popped, origin, poppedFrom, sent, uvars, fvars>>

\* pop_buffer while Dialogs are buffered
DriverPop ==
    /\ batch # <<>>
    /\ LET p == BufferPop(batch) IN
        /\ batch' = p.rest
        /\ last' = [op |-> "pop", item |-> p.item]
    /\ UNCHANGED <<request, total, done, entities, messages, fillResult, fills>>
    /\ UNCHANGED <<uvars, pvars, fvars>>

NextDriver == DriverFetch \/ DriverFetchFails \/ DriverPop

\* the caller keeps going and invocations succeed in the end
SpecDriver ==
    InitServer /\ [][NextDriver]_vars /\ WF_vars(DriverFetch) /\ WF_vars(DriverPop)

\* ---- Flag::from_str
InitParse ==
    /\ InitUpdates /\ userId = NoneVal
    /\ InitDialogs
    /\ InitProtocol
    /\ flagInput \in FlagInputs
    /\ flagResult = FlagPending

\* the call flagInput.parse::<Flag>()
FromStr ==
    /\ flagResult = FlagPending
    /\ flagResult' = FlagFromStr(flagInput)
    /\ UNCHANGED <<flagInput, uvars, dvars, pvars>>

NextFlag == FromStr

SpecFlag == InitParse /\ [][NextFlag]_vars

\* ======================================================================
\* Claims about next_updates
\* ======================================================================
MultiEvent == envelope.shape \in {"Combined", "Updates"}

\* C1: for a multi-event envelope (Combined or Updates) with N events the
\* returned iterator yields exactly those N events in server order and then
\* None on every later call; the entity set owns the envelope's users and chats.
C1_MultiEventOrder ==
    (upc = "returned" /\ MultiEvent) =>
        /\ yielded \o Drain(iter) = envelope.updates
        /\ (Exhausted(iter) => /\ yielded = envelope.updates
                               /\ Exhausted(UpdateIterNext(iter).rest))
        /\ entitySet = [kind |-> "owned", users |-> envelope.users, chats |-> envelope.chats]

C1_Witness ==
    /\ upc = "returned"
    /\ envelope.shape = "Combined"
    /\ Len(envelope.updates) = 2
    /\ envelope.updates[1] # envelope.updates[2]
    /\ yielded = envelope.updates
    /\ lastNext = NoneVal
    /\ entitySet.kind = "owned" /\ entitySet.users # <<>>

\* C2 (as claimed): whenever next_updates returns successfully the returned
\* event sequence holds at least one event.
C2_ReturnedNonEmpty ==
    (upc = "returned" /\ yielded = <<>>) => UpdateIterNext(iter).item.some

\* C2 (amended): a successful return follows a round-trip of exactly one
\* envelope, a round-trip of zero envelopes leaves the call running (it makes
\* another round-trip), and the returned sequence is empty only when that one
\* envelope is a multi-event envelope listing zero events.
C2_OneEnvelopeReturned ==
    /\ (upc = "returned" => lastLen = 1)
    /\ (trips > 0 /\ lastLen = 0 => upc = "running")
    /\ (upc = "returned" /\ yielded = <<>> /\ Exhausted(iter)
            => MultiEvent /\ envelope.updates = <<>>)

C2_Witness ==
    /\ upc = "returned"
    /\ trips >= 2
    /\ MultiEvent /\ envelope.updates = <<>>
    /\ Exhausted(iter)

\* the one event of a single-event result, whether already pulled or not
TheEvent == IF yielded # <<>> THEN yielded[1] ELSE UpdateIterNext(iter).item.v

\* C3: an UpdateShortMessage with counterpart C and own id U gives exactly one
\* new-message event and an empty entity set; outgoing: sender U, recipient C;
\* incoming: sender C, recipient U.
C3_ShortMessagePeers ==
    (upc = "returned" /\ envelope.shape = "UpdateShortMessage") =>
        /\ userId.some
        /\ entitySet = EntitySetEmpty
        /\ Len(yielded \o Drain(iter)) = 1
        /\ TheEvent.type = "NewMessage"
        /\ TheEvent.message.from_id =
                Some(PeerUser(IF envelope.out THEN userId.v ELSE envelope.user_id))
        /\ TheEvent.message.peer_id =
                PeerUser(IF envelope.out THEN envelope.user_id ELSE userId.v)

C3_Witness ==
    /\ upc = "returned"
    /\ envelope.shape = "UpdateShortMessage"
    /\ envelope.out
    /\ userId.some /\ userId.v # envelope.user_id
    /\ Len(yielded) = 1
    /\ yielded[1].message.peer_id = PeerUser(envelope.user_id)

Compact == envelope.shape \in {"UpdateShortMessage", "UpdateShortChatMessage"}

\* C4 (as claimed): a compact single-message envelope of either shape, normalized
\* while the own identity is unknown, ends in the fatal outcome with no event.
C4_CompactNeedsIdentity ==
    (upc # "running" /\ lastLen = 1 /\ Compact /\ ~userId.some) =>
        upc = "panicked" /\ yielded = <<>> /\ iter = NoIter

\* C4 (amended): with the own identity unknown an UpdateShortMessage of either
\* direction ends in the fatal outcome with no event, while an
\* UpdateShortChatMessage returns its one event (sender from_id, recipient the chat).
C4_UserShapeNeedsIdentity ==
    (upc # "running" /\ lastLen = 1 /\ ~userId.some) =>
        /\ (envelope.shape = "UpdateShortMessage" =>
                upc = "panicked" /\ yielded = <<>> /\ iter = NoIter)
        /\ (envelope.shape = "UpdateShortChatMessage" =>
                /\ upc = "returned"
                /\ Len(yielded \o Drain(iter)) = 1
                /\ TheEvent.message.from_id = Some(PeerUser(envelope.from_id))
                /\ TheEvent.message.peer_id = PeerChat(envelope.chat_id))

C4_Witness ==
    /\ upc = "panicked"
    /\ lastLen = 1
    /\ envelope.shape = "UpdateShortMessage"
    /\ ~envelope.out
    /\ ~userId.some

\* C5: a round-trip of two or more envelopes ends next_updates in the fatal
\* outcome (not the transport-error outcome) and hands back no event.
C5_TwoEnvelopesFatal ==
    lastLen >= 2 => upc = "panicked" /\ iter = NoIter /\ yielded = <<>>

C5_Witness ==
    /\ lastLen = 2
    /\ upc = "panicked"
    /\ trips >= 2

\* ======================================================================
\* Claims about the Dialogs listing
\* ======================================================================
FilledWith(l, shape) == l.op = "fill" /\ l.shape = shape
FilledPage(l) == l.op = "fill" /\ l.shape \in {"Dialogs", "DialogsSlice"}

\* the indices of the Dialogs the step pushed
Pushed == (Len(batch) + 1)..Len(batch')

\* C6: when the invoke inside fill_buffer fails, fill_buffer returns that very
\* error and cursor, batch, total, done and both join maps are as before the call.
C6_ErrorLeavesState ==
    [][FilledWith(last', "Err") =>
          /\ UNCHANGED dstate
          /\ fillResult' = [ok |-> FALSE, err |-> last'.err]]_vars

C6_Witness ==
    /\ FilledWith(last, "Err")
    /\ fillResult = [ok |-> FALSE, err |-> "Rpc"]
    /\ batch # <<>>
    /\ total.some
    /\ ~done

\* C7 (as claimed): after a partial-slice response, for every declared count,
\* total is that count and done is true exactly when the number of returned
\* descriptors is smaller than the request limit.
C7_SliceTotalIsCount ==
    FilledWith(last, "DialogsSlice") =>
        /\ total = Some(UsizeOfLen(last.count))
        /\ done = (last.n < request.limit)

\* C7 (amended): after a partial-slice response done is true exactly when fewer
\* descriptors than the request limit came back; total is the declared count
\* when that count is not negative, and the count wrapped around to an unsigned
\* value (so not the count) when it is negative.
C7_SliceTotalAndDone ==
    FilledWith(last, "DialogsSlice") =>
        /\ done = (last.n < request.limit)
        /\ total.some
        /\ total.v.low = last.count
        /\ (last.count >= 0 => total = Some(UsizeOfLen(last.count)))
        /\ (last.count < 0 => total.v.carry = 1)

C7_Witness ==
    /\ FilledWith(last, "DialogsSlice")
    /\ fills = 2
    /\ last.count = MaxCount
    /\ last.n = 1
    /\ done
    /\ total = Some(UsizeOfLen(MaxCount))
    /\ Len(batch) = MAX_DIALOGS_PER_REQUEST + 1

\* C8: after a full-list response total is the number of returned descriptors,
\* done is true, the page is merged (the batch keeps what it held and gains the
\* page's Dialogs, every entity of the page is attached or in the map) and the
\* request is what it was before the call.
C8_FullListKeepsCursor ==
    [][FilledWith(last', "Dialogs") =>
          /\ total' = Some(UsizeOfLen(last'.n))
          /\ done'
          /\ request' = request
          /\ SubSeq(batch', 1, Len(batch)) = batch
          /\ Len(batch') - Len(batch) <= last'.n
          /\ \A e \in last'.ents :
                \/ e.id \in DOMAIN entities'
                \/ \E k \in Pushed : batch'[k].entity.id = e.id]_vars

C8_Witness ==
    /\ FilledWith(last, "Dialogs")
    /\ last.n = 2
    /\ last.added = 2
    /\ total = Some(UsizeOfLen(2))
    /\ done
    /\ request.offset_id # 0
    /\ request.offset_peer # InputPeerEmpty
    /\ Len(batch) = 3

\* C9 (as claimed): after a not-modified response total is the declared count and
\* done is true, while batch, both join maps and the request are unchanged.
C9_NotModifiedTotalIsCount ==
    [][FilledWith(last', "DialogsNotModified") =>
          /\ total' = Some(UsizeOfLen(last'.count))
          /\ done'
          /\ UNCHANGED <<batch, entities, messages, request>>]_vars

\* C9 (amended): as claimed, except that total is the declared count only when
\* that count is not negative; a negative count is stored wrapped around.
C9_NotModifiedFrame ==
    [][FilledWith(last', "DialogsNotModified") =>
          /\ total'.some /\ total'.v.low = last'.count
          /\ (last'.count >= 0 => total' = Some(UsizeOfLen(last'.count)))
          /\ (last'.count < 0 => total'.v.carry = 1)
          /\ done'
          /\ UNCHANGED <<batch, entities, messages, request>>]_vars

C9_Witness ==
    /\ FilledWith(last, "DialogsNotModified")
    /\ last.count = MaxCount
    /\ total = Some(UsizeOfLen(MaxCount))
    /\ done
    /\ batch # <<>>
    /\ DOMAIN entities # {}
    /\ request.offset_id # 0

\* C10 (as claimed): a Dialog is pushed only if an entity for its descriptor's
\* peer came in the same page as the descriptor (read here by numeric id alone,
\* the weakest reading), and a page never makes fill_buffer fail.
C10_EntityFromSamePage ==
    [][FilledPage(last') =>
          /\ fillResult'.ok
          /\ \A k \in Pushed :
                \E e \in last'.ents : e.id = peer_id(batch'[k].dialog.peer)]_vars

\* C10 (amended): a Dialog is pushed only with an entity that carries the numeric
\* id of its descriptor's peer and that came in the same page or was left in the
\* entity map by an earlier page; a page never makes fill_buffer fail.
C10_EntityFromPageOrMap ==
    [][FilledPage(last') =>
          /\ fillResult'.ok
          /\ last'.added = Len(batch') - Len(batch)
          /\ \A k \in Pushed :
                LET d == batch'[k]
                    pid == peer_id(d.dialog.peer)
                IN  /\ d.entity.id = pid
                    /\ \/ d.entity \in last'.ents
                       \/ pid \in DOMAIN entities /\ entities[pid] = d.entity]_vars

C10_Witness ==
    /\ FilledPage(last)
    /\ last.ents = {}
    /\ last.n = 1
    /\ last.added = 1
    /\ fillResult.ok

\* a fill_buffer call made while should_fill_buffer() answers false
UndueFill == last'.op = "fill" /\ ~BufferShouldFill(batch, done)

\* C14 (as claimed): fill_buffer called while the buffer is non-empty or the
\* listing is done is a no-op: it leaves batch, total, done and the cursor unchanged.
C14_UndueFillIsNoOp ==
    [][UndueFill => UNCHANGED <<batch, total, done, request>>]_vars

\* C14 (amended): fill_buffer makes no test of should_fill_buffer; called while
\* the buffer is non-empty or the listing is done it handles the answer as in
\* any other call: only a failed invoke leaves the state alone, the buffered
\* Dialogs keep their places and the page's Dialogs are pushed after them,
\* total and done are overwritten from the answer, and after a partial slice
\* offset_peer is the entity of the Dialog that was first in the buffer.
C14_UndueFillIsHandled ==
    [][UndueFill =>
          /\ SubSeq(batch', 1, Len(batch)) = batch
          /\ (last'.shape = "Err" => UNCHANGED dstate /\ ~fillResult'.ok)
          /\ (last'.shape # "Err" => fillResult'.ok /\ total'.some)
          /\ (last'.shape = "DialogsNotModified" =>
                done' /\ total'.v.low = last'.count /\ UNCHANGED <<batch, request>>)
          /\ (last'.shape = "Dialogs" =>
                done' /\ total' = Some(UsizeOfLen(last'.n)) /\ request' = request)
          /\ (last'.shape = "DialogsSlice" =>
                /\ done' = (last'.n < request.limit)
                /\ total'.v.low = last'.count
                /\ (batch # <<>> =>
                        request'.offset_peer = ToInputPeer(batch[1].entity)))]_vars

C14_Witness ==
    /\ FilledWith(last, "DialogsSlice")
    /\ last.added >= 1
    /\ Len(batch) > last.added
    /\ ~done
    /\ total = Some(UsizeOfLen(MaxCount))
    /\ request.offset_peer = ToInputPeer(batch[1].entity)

\* C16 (as claimed): once done is true it is true in every later state, after
\* any pop_buffer and fill_buffer calls and whatever the server answers.
C16_DoneIsTerminal ==
    [][done => done']_vars

\* C16 (amended): once done is true, pop_buffer, a failed fill_buffer and a
\* fill_buffer answered with a not-modified or a full-list response leave it
\* true; a fill_buffer called after done and answered with a partial slice of
\* at least limit descriptors sets done back to false, and nothing else does.
C16_DoneResetOnlyByFullSlice ==
    [][done =>
          /\ (~done' => /\ FilledWith(last', "DialogsSlice")
                        /\ last'.n >= request.limit
                        /\ last'.reset)
          /\ (FilledWith(last', "DialogsSlice") => done' = (last'.n < request.limit))
          /\ (last'.op = "pop" \/ last'.shape \in {"Err", "DialogsNotModified", "Dialogs"}
                    => done')]_vars

C16_Witness ==
    /\ FilledWith(last, "DialogsSlice")
    /\ last.reset
    /\ ~done
    /\ last.n = MAX_DIALOGS_PER_REQUEST
    /\ fills >= 2

\* C17: every buffered Dialog carries the entity its descriptor's peer refers
\* to: same kind (user, basic group, channel) and same numeric id.
C17_EntityMatchesPeer ==
    \A k \in DOMAIN batch :
        /\ batch[k].entity.kind = batch[k].dialog.peer.kind
        /\ batch[k].entity.id = batch[k].dialog.peer.id

MessageKey(d) == <<peer_id(d.dialog.peer), d.dialog.top_message>>

\* C20: every buffered Dialog that has a last message holds a regular or service
\* message (never the empty placeholder) whose id is the descriptor's
\* top_message and whose destination peer id is the descriptor's peer id; the
\* message leaves the message map when it is attached, and no two Dialogs of a
\* page are given the same map entry.
C20_AttachedMessage ==
    [][/\ \A k \in DOMAIN batch' :
            LET d == batch'[k] IN
            d.last_message.some =>
                /\ d.last_message.v.variant \in {"Message", "Service"}
                /\ d.last_message.v.id = d.dialog.top_message
                /\ peer_id(d.last_message.v.to_id) = peer_id(d.dialog.peer)
       /\ \A k \in Pushed :
            batch'[k].last_message.some =>
                /\ MessageKey(batch'[k]) \notin DOMAIN messages'
                /\ \A j \in Pushed \ {k} :
                        batch'[j].last_message.some =>
                            MessageKey(batch'[j]) # MessageKey(batch'[k])]_vars

C20_Witness ==
    /\ FilledPage(last)
    /\ last.added = 2
    /\ \A k \in DOMAIN batch :
            /\ batch[k].last_message.some
            /\ MessageKey(batch[k]) \notin DOMAIN messages
    /\ Len(batch) = 2
    /\ batch[1].last_message.v.variant # batch[2].last_message.v.variant

\* ======================================================================
\* Claims about a caller that follows the consumption protocol
\* ======================================================================
\* s is t with some elements left out, the others in the order they have in t
RECURSIVE IsSubseq(_, _)
IsSubseq(s, t) ==
    IF s = <<>> THEN TRUE
    ELSE IF t = <<>> THEN FALSE
    ELSE IF Head(s) = Head(t) THEN IsSubseq(Tail(s), Tail(t))
    ELSE IsSubseq(s, Tail(t))

Descriptors(ds) == [k \in DOMAIN ds |-> ds[k].dialog]

\* the Dialogs of the latest page in the order pop_buffer hands them out:
\* those already popped, then those still buffered, next one first
PopOrder == popped \o Reverse(batch)

\* C11: for a caller that fills only when the buffer is empty and the listing
\* is not done, the Dialogs of one page are popped in the relative order of
\* their descriptors in the server's page, and every Dialog of an earlier page
\* is popped before any Dialog of a later page.
C11_PopsInServerOrder ==
    /\ IsSubseq(Descriptors(PopOrder), page)
    /\ \A i, j \in DOMAIN poppedFrom : i < j => poppedFrom[i] <= poppedFrom[j]
    /\ \A k \in DOMAIN origin : \A i \in DOMAIN poppedFrom : poppedFrom[i] <= origin[k]
    /\ Len(origin) = Len(batch)

C11_Witness ==
    /\ Len(popped) = 2
    /\ popped[1].dialog # popped[2].dialog
    /\ page = <<popped[1].dialog, popped[2].dialog>>
    /\ poppedFrom = <<1, 1, 2, 2>>
    /\ batch = <<>>

Cursor(r) == <<r.offset_id, r.offset_date, r.offset_peer>>

\* C12: after every successful fill_buffer that leaves the listing not done,
\* the cursor of the request differs from the cursor that was sent for the page.
C12_CursorAdvances ==
    (last.op = "fill" /\ fillResult.ok /\ ~done) => Cursor(request) # Cursor(sent)

\* right after a partial-slice page: the page's Dialogs in server order, and
\* the positions of those that have a last message
ServerOrder == Reverse(batch)
WithMessage == {k \in DOMAIN ServerOrder : ServerOrder[k].last_message.some}
Lowest(S) == CHOOSE k \in S : \A j \in S : k <= j
Highest(S) == CHOOSE k \in S : \A j \in S : k >= j
OffsetsAre(m) == request.offset_id = m.id /\ request.offset_date = m.date
OffsetsKept ==
    request.offset_id = sent.offset_id /\ request.offset_date = sent.offset_date

\* C13 (as claimed): after a partial-slice page offset_id and offset_date are
\* those of the last message of the first Dialog, in server order, that has a
\* last message; with no such Dialog they keep their values.
C13_OffsetsFromFirstInServerOrder ==
    FilledWith(last, "DialogsSlice") =>
        IF WithMessage = {} THEN OffsetsKept
        ELSE OffsetsAre(ServerOrder[Lowest(WithMessage)].last_message.v)

\* C13 (amended): after a partial-slice page offset_id and offset_date are
\* those of the last message of the last Dialog, in server order, that has a
\* last message (the first one met from index 0 of the buffer, which holds the
\* page reversed); with no such Dialog they keep their values.
C13_OffsetsFromLastInServerOrder ==
    FilledWith(last, "DialogsSlice") =>
        /\ IsSubseq(Descriptors(ServerOrder), page)
        /\ IF WithMessage = {} THEN OffsetsKept
           ELSE OffsetsAre(ServerOrder[Highest(WithMessage)].last_message.v)

C13_Witness ==
    /\ FilledWith(last, "DialogsSlice")
    /\ WithMessage = {1, 2}
    /\ ServerOrder[1].last_message.v.id # ServerOrder[2].last_message.v.id
    /\ OffsetsAre(ServerOrder[2].last_message.v)
    /\ page = Descriptors(ServerOrder)

\* C19: after a partial-slice page that changed offset_id, offset_peer,
\* offset_id and offset_date all come from one buffered Dialog: its entity and
\* its last message.
C19_CursorFromOneDialog ==
    (FilledWith(last, "DialogsSlice") /\ request.offset_id # sent.offset_id) =>
        \E k \in DOMAIN batch :
            /\ request.offset_peer = ToInputPeer(batch[k].entity)
            /\ batch[k].last_message.some
            /\ OffsetsAre(batch[k].last_message.v)

\* C18: a caller that follows the consumption protocol against a server that
\* holds a finite list in a stable order and answers every request with the
\* slice after the cursor ends up with the listing done and the buffer empty.
C18_DriverTerminates == <>(done /\ batch = <<>>)

\* ======================================================================
\* Claims about Flag::from_str
\* ======================================================================
HasDot == \E i \in DOMAIN flagInput : flagInput[i] = "."
FirstDot == CHOOSE i \in DOMAIN flagInput :
                flagInput[i] = "." /\ \A j \in 1..(i - 1) : flagInput[j] # "."
BeforeDot == SubSeq(flagInput, 1, FirstDot - 1)
AfterDot == SubSeq(flagInput, FirstDot + 1, Len(flagInput))

IsDecimal(s) == s # <<>> /\ \A i \in DOMAIN s : s[i] \in Digits

\* the number a digit string denotes
RECURSIVE Denotes(_)
Denotes(s) ==
    IF s = <<>> THEN 0
    ELSE 10 * Denotes(SubSeq(s, 1, Len(s) - 1)) + DigitValue(s[Len(s)])

Unsigned(s) == IF s # <<>> /\ s[1] = "+" THEN Tail(s) ELSE s

\* C15 (as claimed): from_str succeeds exactly when the input has a '.' and the
\* text after the first '.' is an unsigned decimal integer; then name is the
\* text before that '.' and index is the integer; every other input gives
\* InvalidFlag. (Read leniently: digits after a leading '+' may or may not
\* count as an unsigned decimal integer.)
C15_OkIffDecimalAfterDot ==
    flagResult # FlagPending =>
        /\ (HasDot /\ IsDecimal(AfterDot) =>
                flagResult = [ok |-> TRUE, name |-> BeforeDot, index |-> Denotes(AfterDot)])
        /\ (~HasDot \/ ~IsDecimal(Unsigned(AfterDot)) => flagResult = InvalidFlag)

\* C15 (amended): from_str succeeds exactly when the input has a '.' and the
\* text after the first '.' is one or more digits, optionally preceded by one
\* '+', denoting a number that fits usize; then name is the text before that
\* '.' and index is the number; every other input gives InvalidFlag.
C15_OkIffUsizeAfterDot ==
    flagResult # FlagPending =>
        IF /\ HasDot
           /\ IsDecimal(Unsigned(AfterDot))
           /\ Denotes(Unsigned(AfterDot)) <= USIZE_MAX
        THEN flagResult = [ok |-> TRUE, name |-> BeforeDot,
                           index |-> Denotes(Unsigned(AfterDot))]
        ELSE flagResult = InvalidFlag

C15_Witness ==
    /\ flagInput = <<"f", ".", "1", "1">>
    /\ flagResult = [ok |-> TRUE, name |-> <<"f">>, index |-> 11]

====
